---- MODULE Spec2Model ----
(***************************************************************************)
(* SubBoard (src/src/model/SubBoard.ts): one tic-tac-toe board.            *)
(*                                                                         *)
(* The model keeps the two kinds of JavaScript objects the class creates   *)
(* apart: the SubBoard objects (fields size, maxMoves, board, moves,       *)
(* winner) and the arrays of Cells their `board` field refers to.  `grids` *)
(* is the store of cell arrays, and a SubBoard's `board` field is an index *)
(* into it, so that an assignment of one object's `board` to another       *)
(* (SubBoard._copy) is a copy of the reference, as it is in the code.      *)
(* `boards` are the SubBoard objects the caller holds.  `thrown` is the    *)
(* error the last public call threw (None when it returned).               *)
(***************************************************************************)
EXTENDS Integers, Sequences, FiniteSets, TLC

VARIABLES grids, boards, thrown

vars == <<grids, boards, thrown>>

\* ---- program constants ------------------------------------------------
ME == 0
OPPONENT == 1
RESULT_TIE == -1
RESULT_WIN == 0
RESULT_LOSE == 1
\* the default side of a board, constructor(size = 3)
DefaultSize == 3
\* Cell: the player of a cell nobody played, and the index of no move
UNPLAYED == -1

\* ---- bounds -------------------------------------------------------------
\* the number of SubBoard objects the caller holds at a time
MaxBoards == 2
\* an accepted move goes to one of the first MaxChoice unplayed cells (in
\* row-major order); rejected moves are not restricted
MaxChoice == 1
\* an accepted move is made on a board whose moves are at most MaxBehind less
\* than the number of played cells of its array
MaxBehind == 1

\* the sides of the boards constructed
Sizes == 1..DefaultSize
\* the global index the caller passes with the first move of a board
FirstIndex == 4

None == "none"

\* ---- Cell ---------------------------------------------------------------
\* new Cell(): an unplayed cell
NewCell == [player |-> UNPLAYED, subBoardIndex |-> -1, mainIndex |-> -1]

\* ---- SubBoard -----------------------------------------------------------
\* _init: the fresh array of size x size cells (rows x, columns y, from 0)
InitGrid(size) == [x \in 0..(size - 1) |-> [y \in 0..(size - 1) |-> NewCell]]

\* constructor + _init: the fields of a new SubBoard whose cells are grids[ref]
NewSubBoard(size, ref) ==
  [size |-> size, maxMoves |-> size * size, board |-> ref,
   moves |-> 0, winner |-> RESULT_TIE - 1]

\* new SubBoard(size), for any integer size: the constructor throws nothing
\* (err is None); it returns the object and the array of cells _init made
constructor(size) ==
  [err |-> None, cells |-> InitGrid(size), board |-> NewSubBoard(size, 1)]

isFinished(b) == b.winner >= RESULT_TIE

\* _isFull with the board taken for full one move late
_isFull_late(b) == b.moves = b.maxMoves + 1

_isFull(b) == b.moves = b.maxMoves

\* getResult without the check that the game is finished
getResult_unchecked(b) == [err |-> None, ret |-> b.winner]

\* getResult: the error thrown (None when it returns) and the value returned
getResult(b) ==
  IF ~isFinished(b) THEN [err |-> "gameNotFinished", ret |-> None]
  ELSE [err |-> None, ret |-> b.winner]

\* isValidMove with a cell of the self player taken for an unplayed one
isValidMove_selfIsFree(g, b, move) ==
  IF move[1] < 0 \/ move[1] > b.size \/ move[2] < 0 \/ move[2] > b.size
    THEN [err |-> None, ret |-> FALSE]
  ELSE IF move[1] \notin DOMAIN g[b.board]
    THEN [err |-> "TypeError", ret |-> None]
  ELSE IF move[2] \notin DOMAIN g[b.board][move[1]]
    THEN [err |-> None, ret |-> FALSE]
  ELSE IF g[b.board][move[1]][move[2]].player > ME
    THEN [err |-> None, ret |-> FALSE]
  ELSE [err |-> None, ret |-> TRUE]

\* isValidMove, for a move that is a pair of integers.  The conditions are
\* evaluated left to right and the first true one ends the evaluation;
\* this.board[move[0]] is undefined when move[0] is not an index of the
\* array, and reading a property of undefined throws a TypeError.
isValidMove(g, b, move) ==
  IF move[1] < 0 \/ move[1] > b.size \/ move[2] < 0 \/ move[2] > b.size
    THEN [err |-> None, ret |-> FALSE]
  ELSE IF move[1] \notin DOMAIN g[b.board]
    THEN [err |-> "TypeError", ret |-> None]
  ELSE IF move[2] \notin DOMAIN g[b.board][move[1]]
    THEN [err |-> None, ret |-> FALSE]
  ELSE IF g[b.board][move[1]][move[2]].player >= ME
    THEN [err |-> None, ret |-> FALSE]
  ELSE [err |-> None, ret |-> TRUE]

_isValidPlayer(player) == player \in {ME, OPPONENT}

\* _copy: a new SubBoard object; its board field is this.board itself
_copy(b) ==
  [size |-> b.size, maxMoves |-> b.size * b.size, board |-> b.board,
   moves |-> b.moves, winner |-> b.winner]

\* the four checks return the winner field after the check
_checkRow(cells, size, row, winner) ==
  LET player == cells[row][0].player IN
  IF player < ME THEN winner
  ELSE IF \E i \in 1..(size - 1) : player # cells[row][i].player THEN winner
  ELSE IF player >= ME THEN player ELSE winner

_checkColumn(cells, size, col, winner) ==
  LET player == cells[0][col].player IN
  IF player < ME THEN winner
  ELSE IF \E i \in 1..(size - 1) : player # cells[i][col].player THEN winner
  ELSE IF player >= ME THEN player ELSE winner

_checkLtRDiagonal(cells, size, winner) ==
  LET player == cells[0][0].player IN
  IF player < ME THEN winner
  ELSE IF \E i \in 1..(size - 1) : player # cells[i][i].player THEN winner
  ELSE IF player >= ME THEN player ELSE winner

_checkRtLDiagonal(cells, size, winner) ==
  LET player == cells[0][size - 1].player IN
  IF player < ME THEN winner
  ELSE IF \E i \in 0..(size - 1) : player # cells[size - 1 - i][i].player THEN winner
  ELSE IF player >= ME THEN player ELSE winner

\* the checks of _move with the move validated before the board is looked at
_moveError_moveFirst(g, b, player, move) ==
  LET valid == isValidMove(g, b, move) IN
  IF ~_isValidPlayer(player) THEN "player"
  ELSE IF valid.err # None THEN valid.err
  ELSE IF ~valid.ret THEN "move"
  ELSE IF _isFull(b) \/ isFinished(b) THEN "boardFinished"
  ELSE None

\* the checks of _move with a board rejected only when it is full
_moveError_fullOnly(g, b, player, move) ==
  LET valid == isValidMove(g, b, move) IN
  IF _isFull(b) THEN "boardFinished"
  ELSE IF ~_isValidPlayer(player) THEN "player"
  ELSE IF valid.err # None THEN valid.err
  ELSE IF ~valid.ret THEN "move"
  ELSE None

\* _move, the checks before the move is made: the error thrown, None when
\* the move is accepted
_moveError(g, b, player, move) ==
  LET valid == isValidMove(g, b, move) IN
  IF _isFull(b) \/ isFinished(b) THEN "boardFinished"
  ELSE IF ~_isValidPlayer(player) THEN "player"
  ELSE IF valid.err # None THEN valid.err
  ELSE IF ~valid.ret THEN "move"
  ELSE None

\* the cell written with the move count taken after its increment
_moveCell_countedFirst(game, player, index) ==
  [player |-> player, subBoardIndex |-> game.moves + 1, mainIndex |-> index]

\* the cell written without its subBoardIndex
_moveCell_noLocalIndex(game, player, index) ==
  [player |-> player, subBoardIndex |-> -1, mainIndex |-> index]

\* _move, the cell written: game.board[move[0]][move[1]] of the copy
_moveCell(game, player, index) ==
  [player |-> player, subBoardIndex |-> game.moves, mainIndex |-> index]

\* _move, the check of the board after the move: the winner field after the
\* four checks, each made only if the game is not finished by then
_moveWinner(cells, game, move) ==
  LET w1 == _checkRow(cells, game.size, move[1], game.winner)
      w2 == IF ~(w1 >= RESULT_TIE) THEN _checkColumn(cells, game.size, move[2], w1) ELSE w1
      w3 == IF ~(w2 >= RESULT_TIE) THEN _checkLtRDiagonal(cells, game.size, w2) ELSE w2
  IN IF ~(w3 >= RESULT_TIE) THEN _checkRtLDiagonal(cells, game.size, w3) ELSE w3

\* the check for a tie of _move made without looking at the winner
_moveTie_overWinner(game) ==
  IF _isFull(game) THEN RESULT_TIE ELSE game.winner

\* the check for a tie of _move with the full board tested one move late
_moveTie_late(game) ==
  IF game.moves > game.maxMoves /\ game.winner < RESULT_TIE THEN RESULT_TIE
  ELSE game.winner

\* _move, the check for a tie: the winner field after it
_moveTie(game) ==
  IF _isFull(game) /\ game.winner < RESULT_TIE THEN RESULT_TIE ELSE game.winner

\* _move on the object b with the store of cell arrays g: the error thrown
\* (None when the move is accepted), the store after the call and the
\* SubBoard returned (b itself stands for no return value)
_move(g, b, player, move, index) ==
  LET err == _moveError(g, b, player, move) IN
  IF err # None THEN [err |-> err, grids |-> g, game |-> b]
  ELSE
    LET game0 == _copy(b)
        g1    == [g EXCEPT ![game0.board][move[1]][move[2]] = _moveCell(game0, player, index)]
        game1 == [game0 EXCEPT !.moves = game0.moves + 1]
        game2 == [game1 EXCEPT !.winner = _moveWinner(g1[game1.board], game1, move)]
    IN [err |-> None, grids |-> g1, game |-> [game2 EXCEPT !.winner = _moveTie(game2)]]

\* addMyMove / addOpponentMove
addMyMove(g, b, move, index) == _move(g, b, ME, move, index)

addOpponentMove(g, b, move, index) == _move(g, b, OPPONENT, move, index)

\* prettyPrint.  A string is the sequence of its characters.
\* the marker of a cell: '-' or the numeral of its player
_printPlayer(cell) == IF cell.player < 0 THEN "-" ELSE ToString(cell.player)

\* the inner loop, from column y on: line += player + ' '
RECURSIVE _printLine(_, _, _, _)
_printLine(row, size, y, line) ==
  IF y < size THEN _printLine(row, size, y + 1, line \o <<_printPlayer(row[y]), " ">>)
  ELSE line

\* the outer loop, from row x on: ret.push(line)
RECURSIVE _printLines(_, _, _, _)
_printLines(cells, size, x, ret) ==
  IF x < size
    THEN _printLines(cells, size, x + 1, Append(ret, _printLine(cells[x], size, 0, <<>>)))
  ELSE ret

\* Array.join: the elements of the array with sep between them
RECURSIVE join(_, _)
join(array, sep) ==
  IF Len(array) = 0 THEN <<>>
  ELSE IF Len(array) = 1 THEN array[1]
  ELSE array[1] \o sep \o join(Tail(array), sep)

prettyPrint(g, b) == join(_printLines(g[b.board], b.size, 0, <<>>), <<"\n">>)

\* ---- the caller -----------------------------------------------------------
\* the coordinates a caller passes for a board of side size
Coords(size) == -1..(size + 1)

Cells(size) == (0..(size - 1)) \X (0..(size - 1))

\* the number of unplayed cells before cell (x, y) in row-major order
Rank(cells, size, x, y) ==
  Cardinality({c \in Cells(size) :
                 /\ cells[c[1]][c[2]].player < ME
                 /\ (c[1] < x \/ (c[1] = x /\ c[2] < y))})

\* the number of played cells of an array of cells
Played(cells, size) ==
  Cardinality({c \in Cells(size) : cells[c[1]][c[2]].player >= ME})

\* the accepted moves the caller makes: the move goes to one of the first
\* MaxChoice unplayed cells, on a board at most MaxBehind moves behind its
\* array of cells (either player may move at any time, as in the code)
Chooses(g, b, move) ==
  /\ Rank(g[b.board], b.size, move[1], move[2]) < MaxChoice
  /\ Played(g[b.board], b.size) - b.moves <= MaxBehind

\* the global index the caller passes with a move of the self player; the
\* moves of the opponent are passed without one (index = -1, the default)
GlobalIndex(b) == FirstIndex + b.moves

\* new SubBoard(size)
Init ==
  \E size \in Sizes :
    /\ grids = <<InitGrid(size)>>
    /\ boards = {NewSubBoard(size, 1)}
    /\ thrown = None

\* the sizes a caller passes to the constructor, the ones the interface
\* excludes (size < 1) included
AnySize == -1..DefaultSize

\* new SubBoard(size) with any of these sizes
InitAnySize ==
  \E size \in AnySize :
    /\ constructor(size).err = None
    /\ grids = <<constructor(size).cells>>
    /\ boards = {constructor(size).board}
    /\ thrown = None

\* the caller keeps the board an accepted call on b returns, in place of b
\* or next to it
Returned(b, r, move) ==
  /\ Chooses(grids, b, move)
  /\ \/ boards' = (boards \ {b}) \cup {r.game}
     \/ /\ Cardinality(boards) < MaxBoards
        /\ boards' = boards \cup {r.game}

\* b.addMyMove(move, index)
AddMyMove ==
  \E b \in boards :
    \E move \in Coords(b.size) \X Coords(b.size) :
      LET r == addMyMove(grids, b, move, GlobalIndex(b)) IN
      /\ grids' = r.grids
      /\ thrown' = r.err
      /\ IF r.err # None THEN boards' = boards ELSE Returned(b, r, move)

\* b.addOpponentMove(move)
AddOpponentMove ==
  \E b \in boards :
    \E move \in Coords(b.size) \X Coords(b.size) :
      LET r == addOpponentMove(grids, b, move, -1) IN
      /\ grids' = r.grids
      /\ thrown' = r.err
      /\ IF r.err # None THEN boards' = boards ELSE Returned(b, r, move)

\* b.isFinished()
IsFinished ==
  \E b \in boards :
    /\ isFinished(b) \in BOOLEAN
    /\ thrown' = None
    /\ UNCHANGED <<grids, boards>>

\* b.getResult()
GetResult ==
  \E b \in boards :
    /\ thrown' = getResult(b).err
    /\ UNCHANGED <<grids, boards>>

\* b.isValidMove(move)
IsValidMove ==
  \E b \in boards :
    \E move \in Coords(b.size) \X Coords(b.size) :
      /\ thrown' = isValidMove(grids, b, move).err
      /\ UNCHANGED <<grids, boards>>

\* b.prettyPrint()
PrettyPrint ==
  \E b \in boards :
    /\ Len(prettyPrint(grids, b)) >= 0
    /\ thrown' = None
    /\ UNCHANGED <<grids, boards>>

Next ==
  AddMyMove \/ AddOpponentMove \/ IsFinished \/ GetResult \/ IsValidMove \/ PrettyPrint

Spec == Init /\ [][Next]_vars

\* the same calls on a board constructed with any size
SpecAnySize == InitAnySize /\ [][Next]_vars

\* ---- the vocabulary of the properties -------------------------------------
Players == {ME, OPPONENT}

\* the indices a caller passes with a move on b
Indices(b) == {-1, GlobalIndex(b)}

\* what a caller sees of the board b: its cells, its move count, whether it
\* is finished and its result
Snapshot(g, b) ==
  [cells |-> g[b.board], moveCount |-> b.moves,
   finished |-> isFinished(b), result |-> b.winner]

\* the step is the accepted call r on b, whose caller keeps b
Accepts(b, r) ==
  /\ r.err = None
  /\ grids' = r.grids
  /\ r.game \in boards'
  /\ b \in boards'

Unplayed(g, b, m) == g[b.board][m[1]][m[2]].player = UNPLAYED

\* the lines of a board of side size: sets of cells
RowLine(size, x) == {<<x, y>> : y \in 0..(size - 1)}
ColumnLine(size, y) == {<<x, y>> : x \in 0..(size - 1)}
LtRLine(size) == {<<i, i>> : i \in 0..(size - 1)}
RtLLine(size) == {<<i, size - 1 - i>> : i \in 0..(size - 1)}
Lines(size) ==
  {RowLine(size, x) : x \in 0..(size - 1)} \cup {ColumnLine(size, y) : y \in 0..(size - 1)}
    \cup {LtRLine(size), RtLLine(size)}

\* every cell of the line is played by p
PlayedBy(cells, line, p) == \A c \in line : cells[c[1]][c[2]].player = p

\* every cell of the line is played by one and the same player
Aligned(cells, line) == \E p \in Players : PlayedBy(cells, line, p)

\* ---- C1 -------------------------------------------------------------------
\* C1: an accepted addMyMove/addOpponentMove on a board b leaves what the
\* caller sees of b (the player and the two indices of every cell, the move
\* count, isFinished() and the result) as it was before the call.
C1_MoveLeavesSnapshot ==
  [][\A b \in boards : \A p \in Players, m \in Cells(b.size), index \in Indices(b) :
       Accepts(b, _move(grids, b, p, m, index))
         => Snapshot(grids', b) = Snapshot(grids, b)]_vars

\* ---- C2 -------------------------------------------------------------------
\* C2: every board the caller holds has a move count equal to the number of
\* its cells that are played.
C2_MoveCountIsPlayedCells ==
  \A b \in boards : b.moves = Played(grids[b.board], b.size)

\* ---- C3 -------------------------------------------------------------------
\* C3: after a move m1 on an unfinished board b is accepted, a move on b to
\* any cell m2 that was unplayed in b before that call (m2 = m1 included) is
\* accepted too, and the board it returns holds the marks b had plus the
\* mark of m2 only.
C3_SuccessorsDoNotInterfere ==
  [][\A b \in boards : \A p1 \in Players, m1 \in Cells(b.size), index \in Indices(b) :
       Accepts(b, _move(grids, b, p1, m1, index))
         => \A p2 \in Players, m2 \in Cells(b.size) :
              Unplayed(grids, b, m2)
                => LET r2 == _move(grids', b, p2, m2, -1) IN
                   /\ r2.err = None
                   /\ r2.grids[r2.game.board]
                        = [grids[b.board] EXCEPT ![m2[1]][m2[2]] = _moveCell(b, p2, -1)]]_vars

\* ---- C4 -------------------------------------------------------------------
\* C4: on every board held, finished or not, isValidMove((x, y)) returns a
\* boolean for every pair of integers, and it returns true iff
\* 0 <= x < size, 0 <= y < size and the cell (x, y) is unplayed.
C4_IsValidMoveIsRangeAndUnplayed ==
  \A b \in boards : \A m \in Coords(b.size) \X Coords(b.size) :
    LET r == isValidMove(grids, b, m) IN
    /\ r.err = None
    /\ r.ret = (m \in Cells(b.size) /\ Unplayed(grids, b, m))

\* ---- C5 -------------------------------------------------------------------
\* C5: on a finished board every addMyMove and addOpponentMove, whatever the
\* move (in range or not, played cell or not), throws boardFinished and
\* changes no cell.
C5_FinishedBoardRejectsEveryMove ==
  \A b \in boards :
    isFinished(b)
      => \A m \in Coords(b.size) \X Coords(b.size), index \in Indices(b) :
           /\ addMyMove(grids, b, m, index).err = "boardFinished"
           /\ addMyMove(grids, b, m, index).grids = grids
           /\ addOpponentMove(grids, b, m, index).err = "boardFinished"
           /\ addOpponentMove(grids, b, m, index).grids = grids

\* a move was rejected with boardFinished and a finished board is held
C5_Witness ==
  /\ thrown = "boardFinished"
  /\ \E b \in boards : isFinished(b) /\ ~_isFull(b)

\* ---- C6 -------------------------------------------------------------------
\* C6: a finished board stays as it is whatever is called next, on it or on
\* another board: the caller still holds it with the same result.
C6_ResultIsTerminal ==
  [][\A b \in boards :
       isFinished(b)
         => b \in boards']_vars

\* a finished board is held after a later move on another board was accepted
C6_Witness ==
  \E b \in boards :
    /\ isFinished(b)
    /\ Played(grids[b.board], b.size) > b.moves
    /\ \E c \in boards : c.moves > 0 /\ ~isFinished(c)

\* ---- C7 -------------------------------------------------------------------
\* every addMyMove and addOpponentMove on b is rejected
NoMoveAccepted(b) ==
  \A p \in Players, m \in Coords(b.size) \X Coords(b.size) :
    _move(grids, b, p, m, -1).err # None

\* C7: a board is finished iff every move on it is rejected, and a full
\* board is finished.
C7_FinishedIffNoMoveAccepted ==
  \A b \in boards :
    /\ isFinished(b) <=> NoMoveAccepted(b)
    /\ _isFull(b) => isFinished(b)

\* ---- C8 -------------------------------------------------------------------
\* C8: getResult() throws gameNotFinished on an unfinished board; on a
\* finished board it returns -1 for a tie, 0 when the self player won and 1
\* when the opponent won, which is the result of the board.
C8_GetResult ==
  \A b \in boards :
    LET r == getResult(b) IN
    IF b.winner \in {RESULT_TIE, ME, OPPONENT}
      THEN /\ isFinished(b)
           /\ r.err = None
           /\ r.ret = (IF b.winner = RESULT_TIE THEN -1 ELSE IF b.winner = ME THEN 0 ELSE 1)
      ELSE /\ ~isFinished(b)
           /\ r.err = "gameNotFinished"

\* getResult threw on an unfinished board while a finished one is held
C8_Witness ==
  /\ thrown = "gameNotFinished"
  /\ \E b \in boards : isFinished(b) /\ getResult(b).err = None
  /\ \E b \in boards : ~isFinished(b)

\* ---- C9 -------------------------------------------------------------------
\* C9: the board an accepted move by p at (x, y) returns is won by p iff
\* row x, column y or one of the two diagonals of that board is played by
\* one and the same player, and it is won by nobody else.
C9_WonIffLineOfTheMove ==
  \A b \in boards : \A p \in Players, m \in Cells(b.size) :
    LET r == _move(grids, b, p, m, -1) IN
    r.err = None
      => LET cells == r.grids[r.game.board]
             lines == {RowLine(b.size, m[1]), ColumnLine(b.size, m[2]),
                       LtRLine(b.size), RtLLine(b.size)}
         IN /\ r.game.winner = p <=> \E line \in lines : Aligned(cells, line)
            /\ r.game.winner \in Players => r.game.winner = p

\* ---- C10 ------------------------------------------------------------------
\* C10: a board whose move count is maxMoves and none of whose lines is
\* played by one and the same player has the result TIE.
C10_FullBoardWithoutLineIsTie ==
  \A b \in boards :
    (b.moves = b.maxMoves /\ ~\E line \in Lines(b.size) : Aligned(grids[b.board], line))
      => b.winner = RESULT_TIE

\* a full board of side 3 without a line is held, and it is a tie
C10_Witness ==
  \E b \in boards :
    /\ b.size = DefaultSize
    /\ b.moves = b.maxMoves
    /\ ~\E line \in Lines(b.size) : Aligned(grids[b.board], line)
    /\ b.winner = RESULT_TIE

\* ---- C11 ------------------------------------------------------------------
\* C11: on an unfinished board, addMyMove and addOpponentMove to a cell in
\* range that is played throw the move error and change no cell.
C11_PlayedCellIsInvalidMove ==
  \A b \in boards :
    ~isFinished(b)
      => \A m \in Cells(b.size), index \in Indices(b) :
           ~Unplayed(grids, b, m)
             => /\ addMyMove(grids, b, m, index).err = "move"
                /\ addMyMove(grids, b, m, index).grids = grids
                /\ addOpponentMove(grids, b, m, index).err = "move"
                /\ addOpponentMove(grids, b, m, index).grids = grids

\* a move was rejected with the move error on an unfinished board all of
\* whose cells in range but the last are played
C11_Witness ==
  /\ thrown = "move"
  /\ \E b \in boards :
       /\ ~isFinished(b)
       /\ b.size = DefaultSize
       /\ Played(grids[b.board], b.size) = b.maxMoves - 1

\* ---- C12 ------------------------------------------------------------------
\* a pair of coordinates one of which is outside 0..size-1
OutOfRange(size, m) == m[1] \notin 0..(size - 1) \/ m[2] \notin 0..(size - 1)

\* C12: on an unfinished board, addMyMove and addOpponentMove with a
\* coordinate outside 0..size-1 throw the move error, no other error, and
\* change no cell.
C12_OutOfRangeIsInvalidMove ==
  \A b \in boards :
    ~isFinished(b)
      => \A m \in Coords(b.size) \X Coords(b.size) :
           OutOfRange(b.size, m)
             => /\ addMyMove(grids, b, m, -1).err = "move"
                /\ addMyMove(grids, b, m, -1).grids = grids
                /\ addOpponentMove(grids, b, m, -1).err = "move"
                /\ addOpponentMove(grids, b, m, -1).grids = grids

\* ---- C13 ------------------------------------------------------------------
\* C13: the board an accepted move by p to the cell m with the global index
\* passed returns has the cells b had before the call, except that m holds
\* p, the move count of b as local index and the index passed (-1 when none
\* was); its move count is that of b plus one and its side that of b.
C13_MoveWritesOneCell ==
  \A b \in boards : \A p \in Players, m \in Cells(b.size), index \in Indices(b) :
    LET r == _move(grids, b, p, m, index) IN
    r.err = None
      => /\ r.game.moves = b.moves + 1
         /\ r.game.size = b.size
         /\ r.game.maxMoves = b.maxMoves
         /\ \A c \in Cells(b.size) :
              r.grids[r.game.board][c[1]][c[2]]
                = IF c = m
                    THEN [player |-> p, subBoardIndex |-> b.moves, mainIndex |-> index]
                    ELSE grids[b.board][c[1]][c[2]]

\* a board is held that a move of the self player with a global index
\* returned, after a move of the opponent without one
C13_Witness ==
  \E b \in boards : \E c, d \in Cells(b.size) :
    /\ b.moves >= 2
    /\ grids[b.board][c[1]][c[2]]
         = [player |-> ME, subBoardIndex |-> b.moves - 1,
            mainIndex |-> FirstIndex + b.moves - 1]
    /\ grids[b.board][d[1]][d[2]].player = OPPONENT
    /\ grids[b.board][d[1]][d[2]].mainIndex = -1

\* ---- C14 ------------------------------------------------------------------
\* C14: in every cell of every board held, the player is UNPLAYED iff the
\* local index and the global index are both -1, and a played cell has a
\* local index >= 0.
C14_UnplayedIffNoIndex ==
  \A b \in boards : \A c \in Cells(b.size) :
    LET cell == grids[b.board][c[1]][c[2]] IN
    /\ cell.player = UNPLAYED <=> (cell.subBoardIndex = -1 /\ cell.mainIndex = -1)
    /\ cell.player # UNPLAYED => cell.subBoardIndex >= 0

\* a board is held with an unplayed cell and a cell played without a global
\* index
C14_Witness ==
  \E b \in boards : \E c, d \in Cells(b.size) :
    /\ grids[b.board][c[1]][c[2]] = NewCell
    /\ grids[b.board][d[1]][d[2]].player = OPPONENT
    /\ grids[b.board][d[1]][d[2]].mainIndex = -1
    /\ grids[b.board][d[1]][d[2]].subBoardIndex >= 0

\* ---- C15 ------------------------------------------------------------------
\* the markers of row x, each a string of one character
Markers(cells, size, x) ==
  [k \in 1..size |->
     <<IF cells[x][k - 1].player = UNPLAYED THEN "-"
       ELSE IF cells[x][k - 1].player = ME THEN "0" ELSE "1">>]

\* C15: prettyPrint() returns size lines joined by newlines, line x being the
\* markers of the cells (x, 0) .. (x, size-1) with one space between two
\* markers and none after the last.
C15_PrettyPrintIsSpaceJoined ==
  \A b \in boards :
    prettyPrint(grids, b)
      = join([k \in 1..b.size |-> join(Markers(grids[b.board], b.size, k - 1), <<" ">>)],
             <<"\n">>)

\* ---- C16 ------------------------------------------------------------------
\* C16: new SubBoard(size) with size < 1 fails with InvalidConfiguration and
\* yields no board; with size >= 1 it returns a board all of whose cells are
\* unplayed, with no move made and no result.
C16_ConstructorChecksSize ==
  /\ \A size \in AnySize :
       LET r == constructor(size) IN
       IF size < 1 THEN r.err = "InvalidConfiguration"
       ELSE /\ r.err = None
            /\ \A c \in Cells(size) : r.cells[c[1]][c[2]] = NewCell
            /\ r.board.moves = 0
            /\ ~isFinished(r.board)
  /\ \A b \in boards : b.size >= 1

\* ---- C17 ------------------------------------------------------------------
\* the lines _move checks after a move to the cell m
LinesChecked(size, m) ==
  {RowLine(size, m[1]), ColumnLine(size, m[2]), LtRLine(size), RtLLine(size)}

\* C17: when an accepted move by p fills the last cell and completes a line
\* for p, the board returned is won by p, not a tie; it is a tie only if
\* none of the four lines checked is played by one and the same player.
C17_WinOnLastCellIsNotTie ==
  \A b \in boards : \A p \in Players, m \in Cells(b.size) :
    LET r == _move(grids, b, p, m, -1) IN
    (r.err = None /\ r.game.moves = r.game.maxMoves)
      => LET cells == r.grids[r.game.board] IN
         /\ (\E line \in LinesChecked(b.size, m) : PlayedBy(cells, line, p))
              => r.game.winner = p
         /\ r.game.winner = RESULT_TIE
              => ~\E line \in LinesChecked(b.size, m) : Aligned(cells, line)

\* a full board of side 3 is held that the move to its last cell won
C17_Witness ==
  \E b \in boards :
    /\ b.size = DefaultSize
    /\ b.moves = b.maxMoves
    /\ b.winner \in Players
    /\ \E line \in Lines(b.size) : PlayedBy(grids[b.board], line, b.winner)

\* ---- C18 ------------------------------------------------------------------
\* C18: the result of every board held agrees with its cells: an unfinished
\* board has no line played by one and the same player, and a board won by p
\* has a line played by p and none played by the other player.
C18_ResultAgreesWithCells ==
  \A b \in boards :
    LET cells == grids[b.board] IN
    /\ ~isFinished(b) => ~\E line \in Lines(b.size) : Aligned(cells, line)
    /\ \A p \in Players :
         b.winner = p
           => /\ \E line \in Lines(b.size) : PlayedBy(cells, line, p)
              /\ ~\E line \in Lines(b.size) : PlayedBy(cells, line, 1 - p)

\* ---- C19 ------------------------------------------------------------------
\* the played cells of the board b
PlayedCells(g, b) == {c \in Cells(b.size) : g[b.board][c[1]][c[2]].player >= ME}

\* C19: on every board held the local indices of the played cells are
\* pairwise distinct and are exactly 0 .. moveCount - 1.
C19_LocalIndicesAreTheOrder ==
  \A b \in boards :
    /\ \A c, d \in PlayedCells(grids, b) :
         c # d => grids[b.board][c[1]][c[2]].subBoardIndex
                    # grids[b.board][d[1]][d[2]].subBoardIndex
    /\ {grids[b.board][c[1]][c[2]].subBoardIndex : c \in PlayedCells(grids, b)}
         = 0..(b.moves - 1)

\* ---- C20 ------------------------------------------------------------------
\* C20: the move count of a board of side N never exceeds N * N, an
\* accepted move adds one to it, and a board with N * N moves is finished and
\* accepts no move.
C20_GameEnds ==
  \A b \in boards :
    /\ b.moves <= b.size * b.size
    /\ b.moves = b.size * b.size => (isFinished(b) /\ NoMoveAccepted(b))
    /\ \A p \in Players, m \in Cells(b.size) :
         LET r == _move(grids, b, p, m, -1) IN
         r.err = None
           => /\ r.game.moves = b.moves + 1
              /\ r.game.moves <= b.size * b.size

\* a board of side 3 with 9 moves is held, and a move on it was rejected
C20_Witness ==
  /\ thrown = "boardFinished"
  /\ \E b \in boards :
       /\ b.size = DefaultSize
       /\ b.moves = DefaultSize * DefaultSize
       /\ isFinished(b)
       /\ Cardinality(boards) = 1

====
